---- MODULE Spec2Model ----
(***************************************************************************)
(* Model of the Warship SVG generator's client-side orchestration:         *)
(*   App.tsx            (src/unnamed/part_000)  handleGenerate, handleRefine*)
(*   geminiService.ts   (src/unnamed/part_002)  detectAndCropViews,         *)
(*                      runViewPipeline, generateWarshipSvg, extractSvg     *)
(*   InputSection.tsx / SvgPreview.tsx          the guards of the two forms *)
(*                                                                         *)
(* One TLA+ step is one run-to-completion turn of the JavaScript event     *)
(* loop: a user event, or the arrival of a model response / image load     *)
(* together with every promise continuation it makes runnable.             *)
(***************************************************************************)
EXTENDS Integers, Sequences, FiniteSets, TLC

(* ------------------------------ bounds -------------------------------- *)
\* Number of handler invocations (handleGenerate + handleRefine) in a behaviour.
MaxOps == 3
\* Number of handler invocations with a promise still pending at one time,
\* and of handleGenerate invocations among them.
MaxInFlight == 2
MaxGenerating == 1
\* Number of handler invocations in a behaviour of SpecSequential.
MaxSequentialOps == 2
\* Length, in tokens, of the texts extractSvg is tried on alone.
MaxTextLen == 4
\* The same for the texts in which a tag may be cut in two.
MaxSplitTextLen == 5

(* --------------------------- program constants ------------------------ *)
\* draftSvg.slice(0, 50000) in auditDraft
AuditSliceLimit == 50000

(* ------------------------------ values -------------------------------- *)
\* An optional value x? is a sequence of length at most one.
None == << >>
Some(x) == << x >>
IsSome(o) == Len(o) = 1
Get(o) == o[1]

Ops == 1..MaxOps
Views == {"side", "top"}
\* Text of a prompt box.  The code never looks into a prompt, so the text
\* typed for the o-th submission is its own value; EmptyPrompt is an empty box.
EmptyPrompt == [typed |-> 0]
PromptOf(o) == [typed |-> o]
\* Uploaded images (ImageData), numbered in the order the user first submits
\* them; a crop of one is CropOf(image, view).
Upload(n) == [src |-> n, crop |-> "none"]
Images == { Upload(n) : n \in 1..2 }
\* Messages of errors thrown by the model client.
NetErrors == {"503 overloaded"}

\* A text is a sequence of tokens.  "<svg" and "</svg>" are the tags the
\* extraction regex looks for, "FENCE" is a run of three backticks, "xml" /
\* "svg" a fence language word, " " is white space, anything else is ordinary text.
SvgDoc == << "<svg", "hull", "</svg>" >>
FencedDoc == << "FENCE", "xml", " " >> \o SvgDoc \o << " ", "FENCE" >>
\* Texts a generateContent response may carry (response.text); None is
\* undefined.  PlainTexts leaves out the empty text.
ModelTexts == { None, Some(<< >>), Some(FencedDoc) }
PlainTexts == { None, Some(FencedDoc) }

\* GenerationStatus (types.ts); AUDITING and HEALING are never assigned.
StatusIDLE == "IDLE"
StatusSEGMENTING == "SEGMENTING"
StatusLOADING == "LOADING"
StatusSUCCESS == "SUCCESS"
StatusERROR == "ERROR"

PipelineFailure == "Pipeline Failure"
RefinementFailed == "Refinement Failed"
NoViewsMessage == "Could not identify distinct views in the schematic."
NoIssuesText == << "No major issues found." >>
\* err.message of the TypeError raised by text.match on an undefined text
TypeErrorMessage == "Cannot read properties of undefined (reading match)"
\* err.message of the TypeError raised by result.sideViewFound on a null result
NullResultMessage == "Cannot read properties of null (reading sideViewFound)"
\* err.message of the SyntaxError raised by JSON.parse
SyntaxErrorMessage == "Unexpected token in JSON"
CanvasContextMessage == "Could not get canvas context"
\* img.onerror rejects with the event, which has no message property
UndefinedDetails == "undefined"

(* ----------------------------- extractSvg ----------------------------- *)
RECURSIVE FirstIndex(_, _, _)
\* Least index i >= from with text[i] in toks, 0 when there is none.
FirstIndex(text, toks, from) ==
  IF from > Len(text) THEN 0
  ELSE IF text[from] \in toks THEN from
  ELSE FirstIndex(text, toks, from + 1)

RECURSIVE StripFences(_)
\* text.replace(/FENCE(xml|svg)?/g, "")
StripFences(text) ==
  IF text = << >> THEN << >>
  ELSE IF Head(text) = "FENCE"
       THEN IF Len(text) >= 2 /\ text[2] \in {"xml", "svg"}
            THEN StripFences(SubSeq(text, 3, Len(text)))
            ELSE StripFences(Tail(text))
       ELSE << Head(text) >> \o StripFences(Tail(text))

RECURSIVE Trim(_)
\* String.prototype.trim
Trim(text) ==
  IF text = << >> THEN << >>
  ELSE IF Head(text) = " " THEN Trim(Tail(text))
  ELSE IF text[Len(text)] = " " THEN Trim(SubSeq(text, 1, Len(text) - 1))
  ELSE text

\* The characters "<svg" begin at token i: as one token, or as the pieces
\* "<s" and "vg" with nothing between them.
OpensAt(text, i) ==
  \/ text[i] \in {"<svg", "<SVG"}
  \/ text[i] = "<s" /\ i < Len(text) /\ text[i + 1] = "vg"

RECURSIVE FirstOpen(_, _)
\* Least index i >= from at which "<svg" begins, 0 when there is none.
FirstOpen(text, from) ==
  IF from > Len(text) THEN 0
  ELSE IF OpensAt(text, from) THEN from
  ELSE FirstOpen(text, from + 1)

\* text.match(/<svg[\s\S]*?<\/svg>/i): the leftmost "<svg" and the first
\* "</svg>" after it; None when there is no match.
SvgMatch(text) ==
  LET i == FirstOpen(text, 1)
      j == IF i = 0 THEN 0 ELSE FirstIndex(text, {"</svg>", "</SVG>"}, i + 1)
  IN IF i # 0 /\ j # 0 THEN Some(SubSeq(text, i, j)) ELSE None

\* extractSvg of a defined text.
extractSvg(text) ==
  LET match == SvgMatch(text)
  IN IF IsSome(match) THEN Get(match) ELSE Trim(StripFences(text))

\* extractSvg(response.text): text.match throws when response.text is undefined.
ExtractThrows(optText) == ~IsSome(optText)

(* ----------------------------- data model ----------------------------- *)
\* crypto.randomUUID(): the value of the call made by invocation o for `slot`
\* ("project", "side" or "top"); no two calls return the same value.
randomUUID(o, slot) == [op |-> o, slot |-> slot]

\* GeneratedSvg (types.ts)
GeneratedSvg(id, content, prompt, timestamp, auditReport, viewType) ==
  [id |-> id, content |-> content, prompt |-> prompt, timestamp |-> timestamp,
   auditReport |-> auditReport, viewType |-> viewType]

\* WarshipProject (types.ts); sideView and topView are optional.
WarshipProject(id, originalImage) ==
  [id |-> id, originalImage |-> originalImage, sideView |-> None, topView |-> None]

ViewOf(p, v) == IF v = "side" THEN p.sideView ELSE p.topView
WithView(p, v, svg) ==
  IF v = "side" THEN [p EXCEPT !.sideView = Some(svg)]
  ELSE [p EXCEPT !.topView = Some(svg)]

\* ApiError (types.ts)
ApiError(message, details) == [message |-> message, details |-> details]

\* The image cropImage resolves with: the region of `image` holding view v.
CropOf(image, v) == [src |-> image.src, crop |-> v]

\* viewType.toUpperCase() behind the stage prefix: `${STAGE}_${VIEW}`
StageTag(stage, v) ==
  CASE stage = "draft" /\ v = "side" -> "DRAFTING_SIDE"
    [] stage = "draft" /\ v = "top"  -> "DRAFTING_TOP"
    [] stage = "audit" /\ v = "side" -> "AUDITING_SIDE"
    [] stage = "audit" /\ v = "top"  -> "AUDITING_TOP"
    [] stage = "heal"  /\ v = "side" -> "HEALING_SIDE"
    [] stage = "heal"  /\ v = "top"  -> "HEALING_TOP"

(* ----------------------------- model calls ---------------------------- *)
\* One element of contents.parts of a generateContent request.
InlineData(image) ==
  [type |-> "inlineData", image |-> Some(image), svg |-> None, audit |-> None, prompt |-> ""]
TextPart(label, svg, audit, prompt) ==
  [type |-> label, image |-> None, svg |-> svg, audit |-> audit, prompt |-> prompt]

\* A generateContent request: the function issuing it, the view it is for, its parts.
ModelCall(fn, v, parts) == [fn |-> fn, view |-> v, parts |-> parts]

\* draftSvg.slice(0, 50000)
Slice(text, n) == IF Len(text) <= n THEN text ELSE SubSeq(text, 1, n)

generateDraftCall(prompt, imageData, v) ==
  ModelCall("generateDraft", v,
            << InlineData(imageData), TextPart("reconstruct", None, None, prompt) >>)
auditDraftCall(originalImage, draftSvg, v) ==
  ModelCall("auditDraft", v,
            << InlineData(originalImage),
               TextPart("audit", Some(Slice(draftSvg, AuditSliceLimit)), None, "") >>)
healDraftCall(originalImage, draftSvg, auditReport, v) ==
  ModelCall("healDraft", v,
            << InlineData(originalImage),
               TextPart("heal", Some(draftSvg), Some(auditReport), "") >>)
detectCall(imageData) ==
  ModelCall("detectAndCropViews", "none", << InlineData(imageData) >>)

\* generateWarshipSvg(prompt, imageData, previousSvg): the parts it sends.
\* `if (previousSvg)` is a truthiness test: an empty string is skipped too.
generateWarshipSvgCall(prompt, imageData, previousSvg) ==
  ModelCall("generateWarshipSvg", "none",
            (IF IsSome(imageData) THEN << InlineData(Get(imageData)) >> ELSE << >>)
            \o (IF IsSome(previousSvg) /\ Get(previousSvg) # << >>
                THEN << TextPart("currentSvg", previousSvg, None, "") >> ELSE << >>)
            \o << TextPart("instruction", None, None, prompt) >>)

\* What a model call may come back with: a rejection or a response text.
Throw(err) == [throws |-> TRUE, err |-> err, text |-> None]
Reply(optText) == [throws |-> FALSE, err |-> "", text |-> optText]
ModelReplies(texts) == { Throw(e) : e \in NetErrors } \cup { Reply(t) : t \in texts }

(* --------------------------- runViewPipeline -------------------------- *)
\* What a pipeline has done so far, in order: status callbacks and model calls.
StatusEvent(tag) == [kind |-> "status", name |-> tag]
CallEvent(c) == [kind |-> "call", name |-> c.fn]

\* One runViewPipeline invocation: the stage whose model call is awaited
\* ("resolved" / "rejected" once the promise has settled), its locals draft
\* and audit, the request it awaits (call), the value it settles with
\* (healed, or err), and the events it has produced so far (trace).
PipeIdle ==
  [stage |-> "none", draft |-> << >>, audit |-> << >>, healed |-> << >>,
   err |-> "", call |-> None, trace |-> << >>]

\* A settled pipeline's locals are gone; what it did remains.
Settled(P) ==
  [PipeIdle EXCEPT !.stage = P.stage, !.trace = P.trace]

InFlight(P) == P.stage \in {"draft", "audit", "heal"}

\* Mutant: the top pipeline does not start until something else starts it.
runViewPipelineStartSideOnly(prompt, imageData, v) ==
  IF v = "top" THEN PipeIdle
  ELSE [PipeIdle EXCEPT
          !.stage = "draft",
          !.call = Some(generateDraftCall(prompt, imageData, v)),
          !.trace = << StatusEvent(StageTag("draft", v)),
                       CallEvent(generateDraftCall(prompt, imageData, v)) >>]

\* runViewPipeline up to its first await: the DRAFTING callback and the draft call.
runViewPipelineStart(prompt, imageData, v) ==
  [PipeIdle EXCEPT
     !.stage = "draft",
     !.call = Some(generateDraftCall(prompt, imageData, v)),
     !.trace = << StatusEvent(StageTag("draft", v)),
                  CallEvent(generateDraftCall(prompt, imageData, v)) >>]

\* response.text || "No major issues found."
auditDraftResult(optText) ==
  IF IsSome(optText) /\ Get(optText) # << >> THEN Get(optText) ELSE NoIssuesText

\* runViewPipeline after an awaited model call has returned a response: up
\* to its next await, or to the settling of its promise.
PipelineAdvance(P, imageData, v, reply) ==
  CASE P.stage = "draft" ->
         IF ExtractThrows(reply.text)
         THEN [P EXCEPT !.stage = "rejected", !.err = TypeErrorMessage, !.call = None]
         ELSE LET draft == extractSvg(Get(reply.text))
              IN [P EXCEPT
                    !.stage = "audit",
                    !.draft = draft,
                    !.call = Some(auditDraftCall(imageData, draft, v)),
                    !.trace = @ \o << StatusEvent(StageTag("audit", v)),
                                      CallEvent(auditDraftCall(imageData, draft, v)) >>]
    [] P.stage = "audit" ->
         LET audit == auditDraftResult(reply.text)
         IN [P EXCEPT
               !.stage = "heal",
               !.audit = audit,
               !.call = Some(healDraftCall(imageData, P.draft, audit, v)),
               !.trace = @ \o << StatusEvent(StageTag("heal", v)),
                                 CallEvent(healDraftCall(imageData, P.draft, audit, v)) >>]
    [] P.stage = "heal" ->
         IF ExtractThrows(reply.text)
         THEN [P EXCEPT !.stage = "rejected", !.err = TypeErrorMessage, !.call = None]
         ELSE [P EXCEPT !.stage = "resolved", !.call = None,
                        !.healed = extractSvg(Get(reply.text))]

\* Mutant: a rejected draft call is retried once instead of rejecting.
runViewPipelineStepRetry(P, imageData, v, reply) ==
  IF reply.throws /\ P.stage = "draft" /\ Len(P.trace) = 2
  THEN [P EXCEPT !.trace = @ \o << StatusEvent(StageTag("draft", v)),
                                    CallEvent([fn |-> "generateDraft"]) >>]
  ELSE IF reply.throws
  THEN [P EXCEPT !.stage = "rejected", !.err = reply.err, !.call = None]
  ELSE PipelineAdvance(P, imageData, v, reply)

\* Mutant: a rejected audit call is swallowed and the heal stage still runs.
runViewPipelineStepRecover(P, imageData, v, reply) ==
  IF reply.throws /\ P.stage = "audit"
  THEN PipelineAdvance(P, imageData, v, Reply(None))
  ELSE IF reply.throws
  THEN [P EXCEPT !.stage = "rejected", !.err = reply.err, !.call = None]
  ELSE PipelineAdvance(P, imageData, v, reply)

\* runViewPipeline from the return of the awaited model call: a rejected
\* call rejects the pipeline (there is no try/catch), a response advances it.
runViewPipelineStep(P, imageData, v, reply) ==
  IF reply.throws
  THEN [P EXCEPT !.stage = "rejected", !.err = reply.err, !.call = None]
  ELSE PipelineAdvance(P, imageData, v, reply)

\* The tags a step fired through onStatusChange: the status events it appended.
RECURSIVE StatusTags(_)
StatusTags(trace) ==
  IF trace = << >> THEN << >>
  ELSE (IF Head(trace).kind = "status" THEN << Head(trace).name >> ELSE << >>)
       \o StatusTags(Tail(trace))

(* -------------------------------- state ------------------------------- *)
VARIABLES
  status,          \* App: useState<GenerationStatus>
  project,         \* App: useState<WarshipProject | null>
  activeView,      \* App: useState<ViewType>
  error,           \* App: useState<ApiError | null>
  pipelineStatus,  \* App: useState<string>
  ops,             \* the handler invocations, in the order they were started
  started,         \* how many handlers have been invoked
  input,           \* the argument of a function of geminiService.ts studied alone
  output           \* what that function returned, once it has

vars == << status, project, activeView, error, pipelineStatus, ops, started,
           input, output >>
\* No function is studied alone while the App runs.
alone == << input, output >>
react == << status, project, activeView, error, pipelineStatus >>

\* The parsed detector result: the fields handleGenerate's callee reads.
NoResult ==
  [sideViewFound |-> FALSE, sideViewBox |-> FALSE,
   topViewFound |-> FALSE, topViewBox |-> FALSE]

\* One invocation of handleGenerate or handleRefine with its closure.
OpIdle ==
  [kind |-> "none", pc |-> "idle", result |-> "none",
   prompt |-> EmptyPrompt, image |-> None, reported |-> {}, crops |-> {},
   newProject |-> None, pipe |-> [v \in Views |-> PipeIdle],
   currentSvg |-> None, activeView |-> "side", calls |-> << >>]

\* A handler whose promises have all settled keeps only how it ended.
OpDone(kind, result) == [OpIdle EXCEPT !.kind = kind, !.pc = "done", !.result = result]

Init ==
  /\ status = StatusIDLE
  /\ project = None
  /\ activeView = "side"
  /\ error = None
  /\ pipelineStatus = ""
  /\ ops = [o \in Ops |-> OpIdle]
  /\ started = 0
  /\ input = << >>
  /\ output = None

\* Date.now(): logical time, which advances with every handler invocation.
Now == started

\* The invocations with a promise still pending.
InFlightOps == { o \in Ops : ops[o].pc \notin {"idle", "done"} }

Generating == { o \in InFlightOps : ops[o].kind = "generate" }

\* The bounds on invocations admit one more of `kind`.
Admits(limit, inflight, generating, kind) ==
  /\ started < limit
  /\ Cardinality(InFlightOps) < inflight
  /\ kind = "generate" => Cardinality(Generating) < generating

(* ------------------------- App state updates -------------------------- *)
\* The App state as one record, and the assignment of such a record.
Current ==
  [status |-> status, project |-> project, activeView |-> activeView,
   error |-> error, pipelineStatus |-> pipelineStatus]
Commit(R) ==
  /\ status' = R.status
  /\ project' = R.project
  /\ activeView' = R.activeView
  /\ error' = R.error
  /\ pipelineStatus' = R.pipelineStatus

\* Mutant: the previous project is cleared when a generation starts.
handleGenerateEntryClears(R) ==
  [R EXCEPT !.status = StatusSEGMENTING, !.pipelineStatus = "SCANNING_LAYOUT",
            !.error = None, !.project = None]

\* handleGenerate, lines 21-23: what it sets before looking for an image.
handleGenerateEntry(R) ==
  [R EXCEPT !.status = StatusSEGMENTING, !.pipelineStatus = "SCANNING_LAYOUT",
            !.error = None]

\* Mutant: the stored image comes first.
imageToProcessStoredFirst(imageData, proj) ==
  IF IsSome(proj) THEN Some(Get(proj).originalImage) ELSE imageData

\* const imageToProcess = imageData || project?.originalImage
imageToProcess(imageData, proj) ==
  IF IsSome(imageData) THEN imageData
  ELSE IF IsSome(proj) THEN Some(Get(proj).originalImage) ELSE None

\* Mutant: the catch block reads a property the error does not have.
handleGenerateCatchNoText(R, details) ==
  [R EXCEPT !.status = StatusERROR,
            !.error = Some(ApiError(PipelineFailure, UndefinedDetails)),
            !.pipelineStatus = ""]

\* handleGenerate's catch and finally blocks.
handleGenerateCatch(R, details) ==
  [R EXCEPT !.status = StatusERROR,
            !.error = Some(ApiError(PipelineFailure, details)),
            !.pipelineStatus = ""]

\* Mutant: views the new project lacks are carried over from the stored one.
handleGenerateSuccessMerging(R, newProject) ==
  LET carried(v) == IF IsSome(ViewOf(newProject, v)) \/ ~IsSome(R.project)
                    THEN ViewOf(newProject, v) ELSE ViewOf(Get(R.project), v)
  IN [R EXCEPT !.project = Some([newProject EXCEPT !.sideView = carried("side"),
                                                   !.topView = carried("top")]),
               !.activeView = IF IsSome(newProject.sideView) THEN "side" ELSE "top",
               !.status = StatusSUCCESS,
               !.pipelineStatus = ""]

\* Mutant: the active view is left as it was.
handleGenerateSuccessKeepsView(R, newProject) ==
  [R EXCEPT !.project = Some(newProject),
            !.status = StatusSUCCESS,
            !.pipelineStatus = ""]

\* handleGenerate after Promise.all has resolved, and its finally block.
handleGenerateSuccess(R, newProject) ==
  [R EXCEPT !.project = Some(newProject),
            !.activeView = IF IsSome(newProject.sideView) THEN "side" ELSE "top",
            !.status = StatusSUCCESS,
            !.pipelineStatus = ""]

\* Mutant: both .then handlers fill sideView.
pipelineThenSideOnly(newProject, v, P, prompt, id, t) ==
  WithView(newProject, "side", GeneratedSvg(id, P.healed, prompt, t, Some(P.audit), v))

\* The .then handler of a view's pipeline: it fills the local newProject.
pipelineThen(newProject, v, P, prompt, id, t) ==
  WithView(newProject, v, GeneratedSvg(id, P.healed, prompt, t, Some(P.audit), v))

\* Mutant: the callbacks of a generation that has failed are dropped.
setPipelineStatusUnlessFailed(R, tags) ==
  IF tags = << >> \/ R.status = StatusERROR THEN R
  ELSE [R EXCEPT !.pipelineStatus = tags[Len(tags)]]

\* onStatusChange = (s) => setPipelineStatus(s), for each tag a step fired.
setPipelineStatus(R, tags) ==
  IF tags = << >> THEN R ELSE [R EXCEPT !.pipelineStatus = tags[Len(tags)]]

(* --------------------------- handleGenerate --------------------------- *)
\* InputSection: the submit button is enabled and handleSubmit's guard passes.
handleSubmit(prompt, image) ==
  /\ status # StatusLOADING
  /\ ~(~IsSome(image) /\ prompt = EmptyPrompt)

\* The user submits the form: handleGenerate runs up to its first await.
handleGenerate(o, prompt, imageData) ==
  /\ o \in Ops /\ o = started + 1
  /\ handleSubmit(prompt, imageData)
  /\ LET img == imageToProcess(imageData, project)
     IN /\ Commit(handleGenerateEntry(Current))
        /\ ops' = [ops EXCEPT ![o] =
                     IF ~IsSome(img) THEN OpDone("generate", "noop")
                     ELSE [OpIdle EXCEPT !.kind = "generate", !.pc = "detect",
                                         !.prompt = prompt, !.image = img,
                                         !.calls = << detectCall(Get(img)) >>]]
  /\ started' = o

\* Mutant: the empty-promises check is missing.
noPromisesUnchecked(crops) == FALSE

\* promises.length === 0
noPromises(crops) == crops = {}

\* handleGenerate from the return of detectAndCropViews: the new project, the
\* launch of one pipeline per crop, and the throw when there is no crop.
launchPipelines(o, crops) ==
  LET op == ops[o]
      newProject == WarshipProject(randomUUID(o, "project"), Get(op.image))
      pipes == [v \in Views |->
                  IF v \in crops
                  THEN runViewPipelineStart(op.prompt, CropOf(Get(op.image), v), v)
                  ELSE PipeIdle]
      \* side is launched before top
      tags == StatusTags(pipes["side"].trace \o pipes["top"].trace)
      loading == [Current EXCEPT !.status = StatusLOADING]
  IN /\ IF noPromises(crops)
        THEN /\ Commit(handleGenerateCatch(loading, NoViewsMessage))
             /\ ops' = [ops EXCEPT ![o] = OpDone("generate", "error")]
        ELSE /\ Commit(setPipelineStatus(loading, tags))
             /\ ops' = [ops EXCEPT ![o] =
                          [op EXCEPT !.pc = "join", !.crops = crops,
                                     !.newProject = Some(newProject),
                                     !.pipe = pipes]]
     /\ UNCHANGED started

\* handleGenerate's catch when detectAndCropViews rejects.
detectFailed(o, details) ==
  /\ Commit(handleGenerateCatch(Current, details))
  /\ ops' = [ops EXCEPT ![o] = OpDone("generate", "error")]
  /\ UNCHANGED started

\* What the detector may answer: a rejection, or a response whose text is
\* undefined, empty, not JSON, the JSON null, or a JSON object.
DetectorReplies ==
  { [kind |-> k, result |-> NoResult] : k \in {"throw", "undefined", "empty", "malformed", "null"} }
  \cup
  { [kind |-> "object",
     result |-> [sideViewFound |-> sf, sideViewBox |-> sb,
                 topViewFound |-> tf, topViewBox |-> tb]] :
      sf \in BOOLEAN, sb \in BOOLEAN, tf \in BOOLEAN, tb \in BOOLEAN }

\* Mutant: the found flag alone decides.
WantedByFlag(result, v) ==
  IF v = "side" THEN result.sideViewFound ELSE result.topViewFound

\* result.sideViewFound && result.sideViewBox, and the same for top
Wanted(result, v) ==
  IF v = "side" THEN result.sideViewFound /\ result.sideViewBox
  ELSE result.topViewFound /\ result.topViewBox

\* The views detectAndCropViews goes on to crop.
Reported(result) == { v \in Views : Wanted(result, v) }

\* detectAndCropViews from the return of its model call to its first crop.
detectAndCropViews(o, reply) ==
  /\ o \in Ops /\ ops[o].pc = "detect"
  /\ reply \in DetectorReplies
  /\ CASE reply.kind = "throw" -> \E e \in NetErrors : detectFailed(o, e)
       [] reply.kind = "malformed" -> detectFailed(o, SyntaxErrorMessage)
       [] reply.kind = "null" -> detectFailed(o, NullResultMessage)
       [] OTHER ->
            IF Reported(reply.result) # {}
            THEN /\ ops' = [ops EXCEPT ![o] =
                              [@ EXCEPT !.pc = IF "side" \in Reported(reply.result)
                                               THEN "cropSide" ELSE "cropTop",
                                        !.reported = Reported(reply.result)]]
                 /\ UNCHANGED << react, started >>
            ELSE launchPipelines(o, {})

\* How an image load inside cropImage may end.
CropOutcomes == {"loaded", "no context", "load error"}

\* cropImage settles: detectAndCropViews goes on to the next crop or returns.
cropImage(o, outcome) ==
  /\ o \in Ops /\ ops[o].pc \in {"cropSide", "cropTop"}
  /\ outcome \in CropOutcomes
  /\ LET op == ops[o]
         v == IF op.pc = "cropSide" THEN "side" ELSE "top"
     IN CASE outcome = "no context" -> detectFailed(o, CanvasContextMessage)
          [] outcome = "load error" -> detectFailed(o, UndefinedDetails)
          [] OTHER ->
               IF v = "side" /\ "top" \in op.reported
               THEN /\ ops' = [ops EXCEPT ![o] =
                                 [@ EXCEPT !.pc = "cropTop", !.crops = {"side"}]]
                    /\ UNCHANGED << react, started >>
               ELSE launchPipelines(o, op.crops \cup {v})

\* Mutant: the join resolves with the first resolved promise.
anyResolved(pipes, crops) == \E v \in crops : pipes[v].stage = "resolved"

\* Promise.all(promises) has every promise resolved.
allResolved(pipes, crops) == \A v \in crops : pipes[v].stage = "resolved"

\* A model call of view v's pipeline returns: the pipeline runs to its next
\* await or settles; a settled pipeline runs its .then handler, and the join
\* of handleGenerate resolves, rejects, or keeps waiting.
runViewPipeline(o, v, reply) ==
  /\ o \in Ops /\ v \in Views
  /\ ops[o].pc \in {"join", "ended"}
  /\ InFlight(ops[o].pipe[v])
  /\ LET op == ops[o]
         P == runViewPipelineStep(op.pipe[v], CropOf(Get(op.image), v), v, reply)
         pipes == [op.pipe EXCEPT ![v] = IF InFlight(P) THEN P ELSE Settled(P)]
         fired == StatusTags(SubSeq(P.trace, Len(op.pipe[v].trace) + 1, Len(P.trace)))
         pending == \E w \in op.crops : InFlight(pipes[w])
         \* the handler has ended: once nothing is pending the invocation is over
         after(result) ==
           IF pending
           THEN [op EXCEPT !.pc = "ended", !.result = result, !.pipe = pipes]
           ELSE OpDone("generate", result)
     IN CASE P.stage = "rejected" ->
               /\ IF op.pc = "join"
                  THEN /\ Commit(handleGenerateCatch(Current, P.err))
                       /\ ops' = [ops EXCEPT ![o] = after("error")]
                  ELSE /\ UNCHANGED react
                       /\ ops' = [ops EXCEPT ![o] = after(op.result)]
               /\ UNCHANGED started
          [] P.stage = "resolved" ->
                 LET newProject ==
                       pipelineThen(Get(op.newProject), v, P, op.prompt,
                                    randomUUID(o, v), Now)
                 IN /\ UNCHANGED started
                    /\ IF op.pc = "join" /\ allResolved(pipes, op.crops)
                       THEN /\ Commit(handleGenerateSuccess(Current, newProject))
                            /\ ops' = [ops EXCEPT ![o] = OpDone("generate", "success")]
                       ELSE /\ UNCHANGED react
                            /\ ops' = [ops EXCEPT ![o] =
                                 IF op.pc = "join"
                                 THEN [op EXCEPT !.pipe = pipes,
                                                 !.newProject = Some(newProject)]
                                 ELSE [after(op.result) EXCEPT
                                         !.newProject =
                                            IF pending THEN Some(newProject) ELSE None]]
          [] OTHER ->
               /\ Commit(setPipelineStatus(Current, fired))
               /\ ops' = [ops EXCEPT ![o] = [op EXCEPT !.pipe = pipes]]
               /\ UNCHANGED started

(* ---------------------------- handleRefine ---------------------------- *)
\* const currentSvg = project ? (activeView === 'side' ? ... : ...) : null
currentSvg(proj, view) == IF IsSome(proj) THEN ViewOf(Get(proj), view) ELSE None

\* SvgPreview is rendered with data, its form is enabled (isLoading is
\* status === LOADING) and submitRefinement's guard passes.
submitRefinement(text) ==
  /\ IsSome(project)
  /\ IsSome(currentSvg(project, activeView))
  /\ status # StatusLOADING
  /\ text # EmptyPrompt

\* handleRefine, lines 93-94
handleRefineEntry(R) ==
  [R EXCEPT !.status = StatusLOADING, !.pipelineStatus = "REFINING_ACTIVE_VIEW"]

\* Mutant: the catch block also drops the project.
handleRefineCatchClears(R, details) ==
  [R EXCEPT !.status = StatusERROR,
            !.error = Some(ApiError(RefinementFailed, details)),
            !.project = None]

\* handleRefine's catch block
handleRefineCatch(R, details) ==
  [R EXCEPT !.status = StatusERROR,
            !.error = Some(ApiError(RefinementFailed, details))]

\* { ...currentSvg, content: refinedContent, prompt, timestamp: Date.now() }
updatedSvg(svg, refinedContent, prompt, t) ==
  [svg EXCEPT !.content = refinedContent, !.prompt = prompt, !.timestamp = t]

\* setProject(prev => prev ? { ...prev, [slot]: updatedSvg } : null); SUCCESS
handleRefineSuccess(R, view, svg) ==
  [R EXCEPT !.project = IF IsSome(R.project)
                        THEN Some(WithView(Get(R.project), view, svg)) ELSE None,
            !.status = StatusSUCCESS]

\* Mutant: imageUsed is passed to generateWarshipSvg.
handleRefineCallWithImage(prompt, proj, svg) ==
  generateWarshipSvgCall(prompt, Some(proj.originalImage), Some(svg.content))

\* generateWarshipSvg(prompt, undefined, currentSvg?.content); imageUsed,
\* the project's original image, is read but not passed.
handleRefineCall(prompt, proj, svg) ==
  generateWarshipSvgCall(prompt, None, Some(svg.content))

\* The user submits the refinement form: handleRefine runs up to its await.
handleRefine(o, prompt) ==
  /\ o \in Ops /\ o = started + 1
  /\ submitRefinement(prompt)
  /\ LET svg == currentSvg(project, activeView)
     IN ops' = [ops EXCEPT ![o] =
                  [OpIdle EXCEPT
                     !.kind = "refine", !.pc = "call", !.prompt = prompt,
                     !.currentSvg = svg, !.activeView = activeView,
                     !.calls = << handleRefineCall(prompt, Get(project), Get(svg)) >>]]
  /\ Commit(handleRefineEntry(Current))
  /\ started' = o

\* generateWarshipSvg returns: handleRefine stores the refined view, or catches.
generateWarshipSvg(o, reply) ==
  /\ o \in Ops /\ ops[o].pc = "call"
  /\ LET op == ops[o]
     IN IF reply.throws \/ ExtractThrows(reply.text)
        THEN /\ Commit(handleRefineCatch(Current,
                         IF reply.throws THEN reply.err ELSE TypeErrorMessage))
             /\ ops' = [ops EXCEPT ![o] = OpDone("refine", "error")]
        ELSE /\ Commit(handleRefineSuccess(Current, op.activeView,
                         updatedSvg(Get(op.currentSvg),
                                    extractSvg(Get(reply.text)), op.prompt, Now)))
             /\ ops' = [ops EXCEPT ![o] = OpDone("refine", "success")]
  /\ UNCHANGED started

(* ------------------------------ view tabs ----------------------------- *)
\* A tab of App is clicked; a tab exists only for a populated view.
setActiveView(v) ==
  /\ v \in Views
  /\ IsSome(project) /\ IsSome(ViewOf(Get(project), v))
  /\ activeView # v
  /\ activeView' = v
  /\ UNCHANGED << status, project, error, pipelineStatus, ops, started >>

(* --------------------------- specification ---------------------------- *)
\* The images some closure or the project still holds.
ImagesInUse ==
  { Get(ops[o].image) : o \in { x \in Ops : IsSome(ops[x].image) } }
  \cup (IF IsSome(project) THEN { Get(project).originalImage } ELSE {})

\* What the file picker may hold at a submission: nothing, an image in use,
\* or the first image not in use (the unused ones are interchangeable).
Selectable ==
  {None} \cup { Some(i) : i \in ImagesInUse }
  \cup { Some(Upload(n)) : n \in { m \in 1..2 :
            /\ Upload(m) \notin ImagesInUse
            /\ \A k \in 1..(m - 1) : Upload(k) \in ImagesInUse } }

\* The steps of the program, for the response texts `texts`, at most `limit`
\* invocations, and at most `inflight` overlapping ones, `generating` of them
\* handleGenerate's.
NextOf(texts, limit, inflight, generating) ==
  \/ \E o \in Ops, image \in Selectable :
       /\ Admits(limit, inflight, generating, "generate")
       /\ handleGenerate(o, PromptOf(o), image)
       /\ UNCHANGED alone
  \/ \E o \in Ops, reply \in DetectorReplies :
       detectAndCropViews(o, reply) /\ UNCHANGED alone
  \/ \E o \in Ops, outcome \in CropOutcomes :
       cropImage(o, outcome) /\ UNCHANGED alone
  \/ \E o \in Ops, v \in Views, reply \in ModelReplies(texts) :
       runViewPipeline(o, v, reply) /\ UNCHANGED alone
  \/ \E o \in Ops :
       /\ Admits(limit, inflight, generating, "refine")
       /\ handleRefine(o, PromptOf(o))
       /\ UNCHANGED alone
  \/ \E o \in Ops, reply \in ModelReplies(texts) :
       generateWarshipSvg(o, reply) /\ UNCHANGED alone
  \/ \E v \in Views : setActiveView(v) /\ UNCHANGED alone

\* Overlapping invocations, responses with a non-empty text or none.
Next == NextOf(PlainTexts, MaxOps, MaxInFlight, MaxGenerating)
Spec == Init /\ [][Next]_vars

\* One invocation at a time, every response text.
NextSequential == NextOf(ModelTexts, MaxSequentialOps, 1, 1)
SpecSequential == Init /\ [][NextSequential]_vars

\* An awaited model call or image load settles (returns or throws).
Settles(texts) ==
  \/ \E o \in Ops, reply \in DetectorReplies :
       detectAndCropViews(o, reply) /\ UNCHANGED alone
  \/ \E o \in Ops, outcome \in CropOutcomes :
       cropImage(o, outcome) /\ UNCHANGED alone
  \/ \E o \in Ops, v \in Views, reply \in ModelReplies(texts) :
       runViewPipeline(o, v, reply) /\ UNCHANGED alone
  \/ \E o \in Ops, reply \in ModelReplies(texts) :
       generateWarshipSvg(o, reply) /\ UNCHANGED alone

\* Overlapping invocations; every model call and every image load that is
\* awaited eventually settles.  The user may stop submitting at any time.
SpecLive == Init /\ [][Next]_vars /\ WF_vars(Settles(PlainTexts))

(* ------------------------ extractSvg, alone --------------------------- *)
\* The tokens a response text is made of (see SvgDoc).
Tokens == {"<svg", "</svg>", "FENCE", "xml", "svg", " ", "hull"}

RECURSIVE TextsOfLen(_)
TextsOfLen(n) ==
  IF n = 0 THEN {<< >>}
  ELSE { Append(t, k) : t \in TextsOfLen(n - 1), k \in Tokens }

\* Every text of at most MaxTextLen tokens.
ExtractTexts == UNION { TextsOfLen(n) : n \in 0..MaxTextLen }

\* The App does not run.
AppIdle ==
  /\ status = StatusIDLE /\ project = None /\ activeView = "side"
  /\ error = None /\ pipelineStatus = ""
  /\ ops = [o \in Ops |-> OpIdle] /\ started = 0

InitExtract == AppIdle /\ input \in ExtractTexts /\ output = None

\* extractSvg(text) returns.
extractSvgReturns ==
  /\ output = None
  /\ output' = Some(extractSvg(input))
  /\ UNCHANGED << react, ops, started, input >>

SpecExtract == InitExtract /\ [][extractSvgReturns]_vars

\* Tokens, and the two pieces of an opening tag cut after "<s".
SplitTokens == Tokens \cup {"<s", "vg"}

RECURSIVE SplitTextsOfLen(_)
SplitTextsOfLen(n) ==
  IF n = 0 THEN {<< >>}
  ELSE { Append(t, k) : t \in SplitTextsOfLen(n - 1), k \in SplitTokens }

\* Every text of at most MaxSplitTextLen such tokens.
SplitTexts == UNION { SplitTextsOfLen(n) : n \in 0..MaxSplitTextLen }

InitExtractSplit == AppIdle /\ input \in SplitTexts /\ output = None

SpecExtractSplit == InitExtractSplit /\ [][extractSvgReturns]_vars

(* ------------------------- cropImage, alone --------------------------- *)
\* const padding = 20
padding == 20

\* Box coordinates (0-1000 scale) and natural image sizes tried.
Coords == {0, 100, 200, 400, 565, 800, 1000}
NaturalSizes == {1, 640, 800, 1001}

\* BoundingBox (types.ts)
BoundingBox(ymin, xmin, ymax, xmax) ==
  [ymin |-> ymin, xmin |-> xmin, ymax |-> ymax, xmax |-> xmax]

\* w and h of cropImage, in thousandths: ((box.xmax - box.xmin) / 1000) * width
scaledW(box, width) == (box.xmax - box.xmin) * width
scaledH(box, height) == (box.ymax - box.ymin) * height

\* (d / 1000) is computed exactly only when it is a binary fraction.
exactQuotient(d) == d % 125 = 0

\* canvas.width = w + padding * 2, for w = (d / 1000) * natural: a canvas
\* dimension is an unsigned long, so the assignment drops the fraction.  The
\* code computes w in floating point: when the exact value is a whole number
\* and d / 1000 was rounded, the computed value may fall just below it (565
\* and 800 give 491.99999999999994) and the dimension is then one less.
canvasDimensions(d, natural) ==
  LET exact == d * natural + padding * 2 * 1000
  IN IF exact % 1000 = 0 /\ ~exactQuotient(d)
     THEN { exact \div 1000, (exact \div 1000) - 1 }
     ELSE { exact \div 1000 }

canvasWidths(box, width) == canvasDimensions(box.xmax - box.xmin, width)
canvasHeights(box, height) == canvasDimensions(box.ymax - box.ymin, height)

InitCrop ==
  /\ AppIdle
  /\ input \in { [box |-> BoundingBox(y1, x1, y2, x2), width |-> w, height |-> h] :
                    y1 \in Coords, x1 \in Coords, y2 \in Coords, x2 \in Coords,
                    w \in NaturalSizes, h \in NaturalSizes }
  /\ input.box.xmin < input.box.xmax /\ input.box.ymin < input.box.ymax
  /\ output = None

\* img.onload has run and cropImage resolves.
cropImageResolves ==
  /\ output = None
  \* canvas.toDataURL encodes the whole canvas
  /\ \E w \in canvasWidths(input.box, input.width),
        h \in canvasHeights(input.box, input.height) :
       output' = Some([width |-> w, height |-> h])
  /\ UNCHANGED << react, ops, started, input >>

SpecCrop == InitCrop /\ [][cropImageResolves]_vars

(* ------------------------------ claims -------------------------------- *)
IsPrefix(a, b) == Len(a) <= Len(b) /\ a = SubSeq(b, 1, Len(a))

\* What a complete run of view v's pipeline does, in order.
ExpectedTrace(v) ==
  << [kind |-> "status", name |-> StageTag("draft", v)],
     [kind |-> "call", name |-> "generateDraft"],
     [kind |-> "status", name |-> StageTag("audit", v)],
     [kind |-> "call", name |-> "auditDraft"],
     [kind |-> "status", name |-> StageTag("heal", v)],
     [kind |-> "call", name |-> "healDraft"] >>

StagesEntered(stage) ==
  CASE stage = "none" -> 0
    [] stage = "draft" -> 1
    [] stage = "audit" -> 2
    [] stage \in {"heal", "resolved"} -> 3

\* Every pipeline has fired the tags of the stages it entered, once each and in
\* order, each right before the model call of its stage.
C1_TraceOrder ==
  \A o \in Ops, v \in Views :
    LET P == ops[o].pipe[v]
    IN IF P.stage = "rejected"
       THEN \E k \in 1..3 : P.trace = SubSeq(ExpectedTrace(v), 1, 2 * k)
       ELSE P.trace = SubSeq(ExpectedTrace(v), 1, 2 * StagesEntered(P.stage))

\* A pipeline only moves forward: what it has done is never undone or redone.
C1_NoReentry ==
  \A o \in Ops, v \in Views :
    \/ ops'[o].pc = "done"
    \/ /\ IsPrefix(ops[o].pipe[v].trace, ops'[o].pipe[v].trace)
       /\ ops[o].pipe[v].stage \in {"resolved", "rejected"}
            => ops'[o].pipe[v] = ops[o].pipe[v]

\* C1: every run of runViewPipeline on a view V fires exactly DRAFTING_V,
\* AUDITING_V, HEALING_V in that order, each once when no stage throws and each
\* before the model call of its stage; no stage is re-entered or run after a
\* later one.
C1_PipelineOrder == [](C1_TraceOrder) /\ [][C1_NoReentry]_vars

\* A pipeline has resolved, having run all three stages, while its sibling runs.
C1_Witness ==
  \E o \in Ops, v \in Views :
    /\ ops[o].pipe[v].stage = "resolved"
    /\ ops[o].pipe[v].trace = ExpectedTrace(v)

\* A model call that throws rejects the pipeline with that error and adds
\* neither a status callback nor a model call.
C2_ThrowRejects ==
  \A o \in Ops, v \in Views, e \in NetErrors :
    InFlight(ops[o].pipe[v]) =>
      LET P == ops[o].pipe[v]
          Q == runViewPipelineStep(P, CropOf(Get(ops[o].image), v), v, Throw(e))
      IN Q.stage = "rejected" /\ Q.err = e /\ Q.trace = P.trace

\* A rejected pipeline does nothing further.
C2_NoLaterStage ==
  \A o \in Ops, v \in Views :
    ops[o].pipe[v].stage = "rejected" =>
      ops'[o].pc = "done" \/ ops'[o].pipe[v] = ops[o].pipe[v]

\* C2: if the model call of the draft, audit or heal stage throws,
\* runViewPipeline rejects with that error and no later stage of that pipeline
\* is started: no later status callback, no later model call.
C2_StageFailureAborts == [](C2_ThrowRejects) /\ [][C2_NoLaterStage]_vars

\* A pipeline was rejected at its audit stage and its sibling is still running.
C2_Witness ==
  \E o \in Ops, v \in Views :
    /\ ops[o].pipe[v].stage = "rejected"
    /\ Len(ops[o].pipe[v].trace) = 4
    /\ ops[o].pc = "ended"

\* The step in which generation o stores its project.
GenerateSucceeds(o) ==
  ops[o].pc = "join" /\ ops'[o].pc = "done" /\ ops'[o].result = "success"

\* The views a detector response reports: found flag and box both present.
ReportedBy(reply) ==
  { v \in Views :
      IF v = "side" THEN reply.result.sideViewFound /\ reply.result.sideViewBox
      ELSE reply.result.topViewFound /\ reply.result.topViewBox }

C3_Step ==
  \A o \in Ops :
    /\ GenerateSucceeds(o) =>
         /\ IsSome(project')
         /\ Get(project').id = randomUUID(o, "project")
         /\ \A v \in Views : IsSome(ViewOf(Get(project'), v)) <=> v \in ops[o].reported
    /\ \A reply \in DetectorReplies :
         (reply.kind = "object" /\ detectAndCropViews(o, reply)) =>
           IF ReportedBy(reply) = {} THEN ops'[o].pc = "done" /\ ops'[o].result = "error"
           ELSE ops'[o].reported = ReportedBy(reply)

\* C3: when every model call succeeds, the project a generation stores has
\* sideView and topView populated exactly for the views the detector reported,
\* a view being reported only when both its found flag and its box are present.
C3_ViewsAsDetected == [][C3_Step]_vars

\* A generation whose detector reported only the top view has stored its project.
C3_Witness ==
  /\ IsSome(project) /\ status = StatusSUCCESS
  /\ ~IsSome(Get(project).sideView) /\ IsSome(Get(project).topView)
  /\ \E o \in Ops : ops[o].result = "success" /\ Get(project).id = randomUUID(o, "project")

C4_Step ==
  \A o \in Ops :
    /\ \A v \in Views, reply \in ModelReplies(ModelTexts) :
         (ops[o].pc = "join" /\ runViewPipeline(o, v, reply)) =>
           LET Q == runViewPipelineStep(ops[o].pipe[v], CropOf(Get(ops[o].image), v),
                                        v, reply)
           IN Q.stage = "rejected" =>
                /\ status' = StatusERROR
                /\ error' = Some(ApiError(PipelineFailure, Q.err))
                /\ reply.throws => Get(error').details = reply.err
                /\ project' = project
                /\ ops'[o].result = "error"
    /\ (ops[o].kind = "generate" /\ ops[o].result = "error") =>
         /\ ops'[o].result = "error"
         /\ ops'[o] # ops[o] => UNCHANGED << status, project, activeView, error >>

\* C4: if either per-view pipeline rejects, before or after its sibling
\* resolves, the generation ends with status ERROR and the error "Pipeline
\* Failure" whose details is the thrown error's text; it never reaches SUCCESS
\* and never stores a project.
C4_AllOrNothing == [][C4_Step]_vars

\* A pipeline has failed the generation while its sibling is still running.
C4_Witness ==
  /\ status = StatusERROR
  /\ error = Some(ApiError(PipelineFailure, "503 overloaded"))
  /\ \E o \in Ops : ops[o].pc = "ended"

\* A detector response that reports no view: no text, an empty text, or an
\* object in which neither view has both its found flag and its box.
ReportsNoView(reply) ==
  /\ reply.kind \in {"undefined", "empty", "object"}
  /\ ReportedBy(reply) = {}

C5_Step ==
  \A o \in Ops, reply \in DetectorReplies :
    (ReportsNoView(reply) /\ detectAndCropViews(o, reply)) =>
      /\ status' = StatusERROR
      /\ error' = Some(ApiError(PipelineFailure, NoViewsMessage))
      /\ pipelineStatus' = ""
      /\ project' = project
      /\ ops'[o] = OpDone("generate", "error")
      /\ Len(ops[o].calls) = 1 /\ ops[o].calls[1].fn = "detectAndCropViews"

\* C5: when the detector reports neither a side view nor a top view, no
\* per-view pipeline is launched and the generation ends with status ERROR and
\* the details "Could not identify distinct views in the schematic."
C5_NoViewsFails == [][C5_Step]_vars

\* A generation has ended on a detector response that reported no view.
C5_Witness ==
  /\ status = StatusERROR
  /\ error = Some(ApiError(PipelineFailure, NoViewsMessage))
  /\ \E o \in Ops : ops[o] = OpDone("generate", "error")

C6_Step ==
  \A o \in Ops :
    (ops'[o].kind = "generate" /\ ops'[o] # ops[o] /\ ops'[o].result # "success") =>
      project' = project /\ activeView' = activeView

\* C6: a generation that does not succeed leaves the stored project and the
\* active view as they were before it started: none of its steps, from its start
\* to its failure and the late callbacks after it, changes either.
C6_FailureKeepsProject == [][C6_Step]_vars

\* A generation has failed while the project of an earlier one is stored.
C6_Witness ==
  /\ IsSome(project) /\ status = StatusERROR
  /\ \E o \in Ops :
       /\ ops[o].kind = "generate" /\ ops[o].result = "error"
       /\ Get(project).id.op < o

C7_Step ==
  \A o \in Ops :
    (ops'[o].kind = "generate" /\ ops'[o] # ops[o] /\ project' # project) =>
      /\ GenerateSucceeds(o)
      /\ \A v \in ops[o].crops : ops[o].pipe[v].stage \in {"heal", "resolved"}
      /\ Cardinality({ v \in ops[o].crops : InFlight(ops[o].pipe[v]) }) = 1
      /\ \A v \in ops[o].crops : IsSome(ViewOf(Get(project'), v))

\* C7: a generation writes the stored project only in the step in which the
\* last of its launched pipelines resolves, every other one having resolved
\* before; no step that leaves a pipeline pending or rejected writes it.
C7_SingleCommit == [][C7_Step]_vars

\* A generation with both pipelines launched has stored its project.
C7_Witness ==
  /\ IsSome(project) /\ status = StatusSUCCESS
  /\ IsSome(Get(project).sideView) /\ IsSome(Get(project).topView)
  /\ \E o \in Ops : ops[o].result = "success" /\ Get(project).id = randomUUID(o, "project")

\* C8: handleGenerate called with no image while no project is stored returns
\* without calling the detector and leaves status, project, error and
\* pipelineStatus unchanged.
C8_NoImageNoOp ==
  [][\A o \in Ops :
       (ops[o].pc = "idle" /\ ops'[o].result = "noop") =>
         /\ ops'[o].calls = << >>
         /\ UNCHANGED << status, project, error, pipelineStatus >>]_vars

\* The step in which refinement o stores its result.
RefineSucceeds(o) ==
  ops[o].kind = "refine" /\ ops[o].pc = "call" /\ ops'[o].result = "success"

\* C9: a successful refinement changes only the content, prompt and timestamp
\* of the view that was active when it was requested; that view's id, viewType
\* and auditReport, the other view, the project id and the original image are
\* what they were right before the write.
C9_RefineFrame ==
  [][\A o \in Ops :
       RefineSucceeds(o) =>
         /\ IsSome(project) /\ IsSome(project')
         /\ LET p == Get(project)
                q == Get(project')
                slot == ops[o].activeView
            IN /\ q.id = p.id
               /\ q.originalImage = p.originalImage
               /\ \A v \in Views \ {slot} : ViewOf(q, v) = ViewOf(p, v)
               /\ IsSome(ViewOf(p, slot)) /\ IsSome(ViewOf(q, slot))
               /\ Get(ViewOf(q, slot)).id = Get(ViewOf(p, slot)).id
               /\ Get(ViewOf(q, slot)).viewType = Get(ViewOf(p, slot)).viewType
               /\ Get(ViewOf(q, slot)).auditReport = Get(ViewOf(p, slot)).auditReport]_vars

\* The parts of a refinement in flight that do not depend on the SVG content:
\* one model call, made by generateWarshipSvg, with the new instruction and no
\* image, and neither a pipeline nor a stage tag.
RefineCallShape(o) ==
  /\ Len(ops[o].calls) = 1
  /\ \A v \in Views : ops[o].pipe[v] = PipeIdle
  /\ pipelineStatus = "REFINING_ACTIVE_VIEW"
  /\ IsSome(project) /\ ops[o].currentSvg = ViewOf(Get(project), ops[o].activeView)
  /\ LET c == ops[o].calls[1]
     IN /\ c.fn = "generateWarshipSvg"
        /\ \A i \in 1..Len(c.parts) : c.parts[i].type # "inlineData"
        /\ \E i \in 1..Len(c.parts) :
             c.parts[i].type = "instruction" /\ c.parts[i].prompt = ops[o].prompt

\* The SVG parts of the model call of refinement o.
SvgParts(o) ==
  LET c == ops[o].calls[1]
  IN { i \in 1..Len(c.parts) : c.parts[i].type = "currentSvg" }

StageAfter(stage) ==
  CASE stage = "draft" -> "audit"
    [] stage = "audit" -> "heal"
    [] stage = "heal" -> "resolved"

\* What a response does to the sibling of a failed pipeline.
C11_Step ==
  \A o \in Ops, v \in Views, reply \in ModelReplies(ModelTexts) :
    (ops[o].pc = "ended" /\ runViewPipeline(o, v, reply)) =>
      /\ ops[o].result = "error"
      /\ UNCHANGED << status, project, activeView, error >>
      /\ LET P == ops[o].pipe[v]
             advances == ~reply.throws /\ (P.stage = "audit" \/ IsSome(reply.text))
         IN IF advances /\ P.stage # "heal"
            THEN /\ ops'[o].pc = "ended"
                 /\ ops'[o].pipe[v].stage = StageAfter(P.stage)
                 /\ ops'[o].pipe[v].trace =
                      P.trace \o << [kind |-> "status",
                                     name |-> StageTag(StageAfter(P.stage), v)],
                                    ExpectedTrace(v)[Len(P.trace) + 2] >>
                 /\ pipelineStatus' = StageTag(StageAfter(P.stage), v)
            ELSE /\ ops'[o] = OpDone("generate", "error")
                 /\ pipelineStatus' = pipelineStatus

\* C11: after one view's pipeline has failed and the generation has been
\* reported as failed, the sibling pipeline is not cancelled: it takes the
\* responses of its remaining model calls, fires its remaining status callbacks
\* and issues its remaining calls until it resolves or fails, and its result
\* is never written into the project.
C11_SiblingRunsOn == [][C11_Step]_vars

\* After the failure was reported, the sibling has fired its HEALING callback.
C11_Witness ==
  \E o \in Ops, v \in Views :
    /\ ops[o].pc = "ended" /\ status = StatusERROR
    /\ ops[o].pipe[v].stage = "heal"
    /\ pipelineStatus = StageTag("heal", v)

\* C12: a detector response whose text is malformed JSON is treated as "no
\* views found": the generation ends exactly as for an empty or absent text,
\* with the fixed no-distinct-views error and not with a parse error.
C12_MalformedAsNoViews ==
  [][\A o \in Ops, reply \in DetectorReplies :
       (reply.kind = "malformed" /\ detectAndCropViews(o, reply)) =>
         /\ status' = StatusERROR
         /\ error' = Some(ApiError(PipelineFailure, NoViewsMessage))
         /\ ops'[o] = OpDone("generate", "error")]_vars

\* The step in which generation o launches its pipelines.
Launches(o) == ops[o].pc \in {"detect", "cropSide", "cropTop"} /\ ops'[o].pc = "join"

C13_Step ==
  \A o \in Ops :
    \* every pipeline is launched, up to its draft call, in the same step
    /\ Launches(o) =>
         /\ ops'[o].crops = ops'[o].reported
         /\ \A v \in ops'[o].reported :
              /\ ops'[o].pipe[v].stage = "draft"
              /\ ops'[o].pipe[v].trace = SubSeq(ExpectedTrace(v), 1, 2)
         /\ status' = StatusLOADING
         /\ pipelineStatus' = StageTag("draft", IF "top" \in ops'[o].reported
                                                THEN "top" ELSE "side")
    \* a response to one pipeline moves that pipeline only, and by its own
    \* state only
    /\ \A v \in Views, reply \in ModelReplies(ModelTexts) :
         (ops[o].pc = "join" /\ runViewPipeline(o, v, reply) /\ ops'[o].pc = "join") =>
           LET Q == runViewPipelineStep(ops[o].pipe[v], CropOf(Get(ops[o].image), v),
                                        v, reply)
           IN /\ ops'[o].pipe[v].stage = Q.stage
              /\ ops'[o].pipe[v].trace = Q.trace
              /\ \A w \in Views \ {v} : ops'[o].pipe[w] = ops[o].pipe[w]

\* While the generation waits, each launched pipeline is somewhere on its own
\* way, whatever the other has reached.
C13_Join ==
  \A o \in Ops :
    ops[o].pc = "join" =>
      /\ \A v \in ops[o].crops : ops[o].pipe[v].stage \in {"draft", "audit", "heal", "resolved"}
      /\ \E v \in ops[o].crops : InFlight(ops[o].pipe[v])

\* C13: when both views are detected, both pipelines are launched in one step
\* (both DRAFTING callbacks fired and both draft calls issued before any draft
\* response is taken), a response to one pipeline advances that pipeline only
\* and by its own state only, and the stages of the two interleave freely.
C13_PipelinesConcurrent == [](C13_Join) /\ [][C13_Step]_vars

\* The pipeline launched second has resolved before the first got its draft.
C13_Witness ==
  \E o \in Ops :
    /\ ops[o].pc = "join" /\ ops[o].crops = Views
    /\ ops[o].pipe["top"].stage = "resolved"
    /\ ops[o].pipe["side"].stage = "draft"

\* The ids a project holds: its own and those of its views.
IdsOf(proj) ==
  IF ~IsSome(proj) THEN {}
  ELSE {Get(proj).id}
       \cup { Get(ViewOf(Get(proj), v)).id : v \in { w \in Views : IsSome(ViewOf(Get(proj), w)) } }

C14_Step ==
  \A o \in Ops :
    GenerateSucceeds(o) =>
      /\ IsSome(project')
      /\ Get(project').id \notin IdsOf(project)
      /\ Get(project').originalImage = Get(ops[o].image)
      /\ \A v \in Views :
           IF v \in ops[o].reported
           THEN /\ IsSome(ViewOf(Get(project'), v))
                /\ Get(ViewOf(Get(project'), v)).id \notin IdsOf(project)
                /\ Get(ViewOf(Get(project'), v)).id # Get(project').id
                /\ Get(ViewOf(Get(project'), v)).prompt = ops[o].prompt
                /\ Get(ViewOf(Get(project'), v)).viewType = v
           ELSE ~IsSome(ViewOf(Get(project'), v))
      /\ (IsSome(Get(project').sideView) /\ IsSome(Get(project').topView)) =>
           Get(Get(project').sideView).id # Get(Get(project').topView).id

\* C14: a successful generation replaces the stored project entirely: the new
\* project has a fresh id, holds exactly the views detected in this generation
\* (a view of the previous project that was not detected now is absent), and
\* each stored view has a fresh id and this generation's prompt.
C14_ProjectReplaced == [][C14_Step]_vars

\* A second generation has succeeded after a first one and stored one view only.
C14_Witness ==
  /\ IsSome(project) /\ status = StatusSUCCESS
  /\ \E o \in Ops :
       /\ o > 1 /\ ops[o].result = "success" /\ ops[1].result = "success"
       /\ ops[1].kind = "generate"
       /\ Get(project).id = randomUUID(o, "project")
       /\ ~IsSome(Get(project).sideView)

\* C15: every view stored in the project by a successful generation has a
\* non-empty content string and a non-empty auditReport string, whatever text
\* the model returned at the draft, audit and heal stages, the empty text
\* included.
C15_NonEmptyViews ==
  [][\A o \in Ops :
       GenerateSucceeds(o) =>
         \A v \in ops[o].reported :
           /\ IsSome(ViewOf(Get(project'), v))
           /\ Get(ViewOf(Get(project'), v)).content # << >>
           /\ IsSome(Get(ViewOf(Get(project'), v)).auditReport)
           /\ Get(Get(ViewOf(Get(project'), v)).auditReport) # << >>]_vars

\* The auditReport half of C15, which does hold.
C15_AuditReportNonEmpty ==
  [][\A o \in Ops :
       GenerateSucceeds(o) =>
         \A v \in ops[o].reported :
           /\ IsSome(Get(ViewOf(Get(project'), v)).auditReport)
           /\ Get(Get(ViewOf(Get(project'), v)).auditReport) # << >>]_vars

\* Opening tags minus closing tags among text[i..k].
Depth(text, i, k) ==
  Cardinality({ n \in i..k : text[n] \in {"<svg", "<SVG"} })
  - Cardinality({ n \in i..k : text[n] \in {"</svg>", "</SVG>"} })

\* text[i..j] is a well-formed SVG element: it opens at i and j closes it.
WellFormedAt(text, i, j) ==
  /\ i < j
  /\ text[i] \in {"<svg", "<SVG"} /\ text[j] \in {"</svg>", "</SVG>"}
  /\ \A k \in i..(j - 1) : Depth(text, i, k) >= 1
  /\ Depth(text, i, j) = 0

SvgElements(text) ==
  { ij \in (1..Len(text)) \X (1..Len(text)) : WellFormedAt(text, ij[1], ij[2]) }

\* The text with every fence marker (a fence and the xml or svg right behind
\* it) left out, and the white space at both ends.
RECURSIVE Keep(_, _)
Keep(text, drop) ==
  IF text = << >> THEN << >>
  ELSE LET rest == Keep(SubSeq(text, 1, Len(text) - 1), drop)
       IN IF Len(text) \in drop THEN rest ELSE Append(rest, text[Len(text)])

FenceMarkers(text) ==
  { n \in 1..Len(text) :
      \/ text[n] = "FENCE"
      \/ n > 1 /\ text[n] \in {"xml", "svg"} /\ text[n - 1] = "FENCE" }

Unfenced(text) ==
  LET t == Keep(text, FenceMarkers(text))
      inner == { n \in 1..Len(t) : t[n] # " " }
  IN IF inner = {} THEN << >>
     ELSE SubSeq(t, CHOOSE a \in inner : \A b \in inner : a <= b,
                    CHOOSE a \in inner : \A b \in inner : a >= b)

\* For a text with no SVG element, extractSvg returns the text without its
\* fence markers, trimmed.
C16_FenceFallback ==
  (IsSome(output) /\ SvgElements(input) = {}) => Get(output) = Unfenced(input)

\* C16: extractSvg of a text that contains a well-formed SVG element returns
\* exactly such an element, from its opening tag to its own closing tag,
\* whatever surrounds it; of a text with no SVG element but with fence markers
\* it returns the trimmed text with every fence marker removed.
C16_ExtractsElement ==
  IsSome(output) =>
    /\ SvgElements(input) # {} =>
         \E ij \in SvgElements(input) : Get(output) = SubSeq(input, ij[1], ij[2])
    /\ SvgElements(input) = {} => Get(output) = Unfenced(input)

\* C17: for every bounding box with 0 <= xmin < xmax <= 1000 and
\* 0 <= ymin < ymax <= 1000 and every source image of natural size W x H, the
\* image the cropper resolves with is (xmax - xmin) / 1000 * W + 40 wide and
\* (ymax - ymin) / 1000 * H + 40 high.  (Sizes are compared in thousandths.)
C17_CropSize ==
  IsSome(output) =>
    /\ Get(output).width * 1000 = scaledW(input.box, input.width) + 40 * 1000
    /\ Get(output).height * 1000 = scaledH(input.box, input.height) + 40 * 1000

\* What does hold of the cropper: each dimension is the whole part of the
\* claimed value, or one less where floating point rounds a whole value down.
C17_CropSizeWhole ==
  IsSome(output) =>
    /\ Get(output).width \in
         { (scaledW(input.box, input.width) + 40 * 1000) \div 1000 - k : k \in {0, 1} }
    /\ Get(output).height \in
         { (scaledH(input.box, input.height) + 40 * 1000) \div 1000 - k : k \in {0, 1} }

\* What the form may hand to handleGenerate as its image.
Supplied == {None} \cup { Some(i) : i \in Images }

\* The image in the detector call of generation o, after the step.
DetectorImage(o) == Get(ops'[o].calls[1].parts[1].image)

\* The stored project's originalImage after a success is the image that was
\* sent to the detector.
C18_StoresSentImage ==
  \A o \in Ops :
    GenerateSucceeds(o) =>
      /\ ops[o].calls[1].fn = "detectAndCropViews"
      /\ Get(project').originalImage = Get(ops[o].calls[1].parts[1].image)

\* C18 as stated: when a project exists, a generation sends the project's
\* stored original image to the detector; a newly supplied image is used only
\* when no project exists; the stored originalImage after success is the
\* image that was sent.
C18_ReusesStoredImage ==
  [][/\ C18_StoresSentImage
     /\ \A o \in Ops, image \in Supplied :
          handleGenerate(o, PromptOf(o), image) =>
            IF IsSome(project)
            THEN ops'[o].pc = "detect" /\ DetectorImage(o) = Get(project).originalImage
            ELSE IF IsSome(image)
            THEN ops'[o].pc = "detect" /\ DetectorImage(o) = Get(image)
            ELSE ops'[o].calls = << >>]_vars

\* C18: a generation sends the newly supplied image to the detector whenever
\* one is supplied, whether or not a project exists; it sends the project's
\* stored original image only when none is supplied and a project exists, and
\* calls no detector when there is neither; the stored originalImage after
\* success is the image that was sent.
C18_NewImageFirst ==
  [][/\ C18_StoresSentImage
     /\ \A o \in Ops, image \in Supplied :
          handleGenerate(o, PromptOf(o), image) =>
            IF IsSome(image)
            THEN ops'[o].pc = "detect" /\ DetectorImage(o) = Get(image)
            ELSE IF IsSome(project)
            THEN ops'[o].pc = "detect" /\ DetectorImage(o) = Get(project).originalImage
            ELSE ops'[o].calls = << >>]_vars

\* A generation given a new image runs while another image's project is stored.
C18_Witness ==
  \E o \in Ops :
    /\ ops[o].kind = "generate" /\ ops[o].pc = "join"
    /\ IsSome(project)
    /\ Get(project).originalImage # Get(ops[o].image)
    /\ Get(ops[o].newProject).originalImage = Get(ops[o].image)

C19_Step ==
  \A o \in Ops :
    \* the model call throws, or its response has no text for extractSvg
    /\ \A reply \in ModelReplies(ModelTexts) :
         (generateWarshipSvg(o, reply) /\ (reply.throws \/ ~IsSome(reply.text))) =>
           /\ status' = StatusERROR
           /\ IsSome(error') /\ Get(error').message = RefinementFailed
           /\ Get(error').details = (IF reply.throws THEN reply.err ELSE TypeErrorMessage)
           /\ ops'[o] = OpDone("refine", "error")
    \* no step of a refinement that does not succeed writes the project
    /\ (ops'[o].kind = "refine" /\ ops'[o] # ops[o] /\ ops'[o].result # "success") =>
         project' = project /\ activeView' = activeView

\* C19: a refinement whose model call throws ends with status ERROR and the
\* error "Refinement Failed" whose details is the thrown error's text, and
\* leaves the project, the active view's content, prompt and timestamp
\* included, unchanged.
C19_RefineFailure == [][C19_Step]_vars

\* A refinement has failed on a rejected model call.
C19_Witness ==
  /\ status = StatusERROR /\ IsSome(project)
  /\ error = Some(ApiError(RefinementFailed, "503 overloaded"))
  /\ \E o \in Ops : ops[o] = OpDone("refine", "error")

C20_Step ==
  \A o \in Ops, v \in Views, reply \in ModelReplies(ModelTexts) :
    (ops[o].pc = "join" /\ runViewPipeline(o, v, reply) /\ ~reply.throws) =>
      LET P == ops[o].pipe[v]
          Q == ops'[o].pipe[v]
          crop == [src |-> Get(ops[o].image).src, crop |-> v]
      IN CASE P.stage = "draft" /\ IsSome(reply.text) ->
                \* the audit gets this view's crop and this pipeline's draft
                /\ Q.draft = extractSvg(Get(reply.text))
                /\ Get(Q.call).fn = "auditDraft" /\ Get(Q.call).view = v
                /\ Get(Q.call).parts[1].image = Some(crop)
                /\ Get(Q.call).parts[2].svg = Some(Q.draft)
           [] P.stage = "audit" ->
                \* the heal gets this view's crop, this pipeline's draft and
                \* this pipeline's audit text
                /\ Q.draft = P.draft
                /\ Q.audit = (IF IsSome(reply.text) /\ Get(reply.text) # << >>
                              THEN Get(reply.text) ELSE NoIssuesText)
                /\ Get(Q.call).fn = "healDraft" /\ Get(Q.call).view = v
                /\ Get(Q.call).parts[1].image = Some(crop)
                /\ Get(Q.call).parts[2].svg = Some(P.draft)
                /\ Get(Q.call).parts[2].audit = Some(Q.audit)
           [] P.stage = "heal" /\ IsSome(reply.text) ->
                \* the view's slot gets this pipeline's heal output and audit
                \* text; the other slot is left as it is
                LET stored == IF ops'[o].pc = "done" THEN Get(project')
                              ELSE Get(ops'[o].newProject)
                IN /\ IsSome(ViewOf(stored, v))
                   /\ Get(ViewOf(stored, v)).viewType = v
                   /\ Get(ViewOf(stored, v)).id = randomUUID(o, v)
                   /\ Get(ViewOf(stored, v)).content = extractSvg(Get(reply.text))
                   /\ Get(ViewOf(stored, v)).auditReport = Some(P.audit)
                   /\ \A w \in Views \ {v} :
                        ViewOf(stored, w) = ViewOf(Get(ops[o].newProject), w)
           [] OTHER -> TRUE

\* C20: results never cross views: whatever the order in which the two
\* pipelines advance and resolve, sideView has viewType side and holds the heal
\* output and the audit text of the side pipeline, topView those of the top
\* pipeline; the heal stage of a pipeline receives the draft and the audit text
\* of that same pipeline; the stored auditReport is that audit text verbatim.
C20_NoCrossing == [][C20_Step]_vars

\* A stored project whose two views differ in content and in audit report, the
\* side pipeline having had an empty heal text and an empty audit text.
C20_Witness ==
  /\ IsSome(project) /\ status = StatusSUCCESS
  /\ IsSome(Get(project).sideView) /\ IsSome(Get(project).topView)
  /\ Get(Get(project).sideView).content = << >>
  /\ Get(Get(project).topView).content = SvgDoc
  /\ Get(Get(project).sideView).auditReport = Some(NoIssuesText)
  /\ Get(Get(project).topView).auditReport = Some(FencedDoc)

\* The handlers that have started and have reached neither SUCCESS nor ERROR:
\* handleGenerate awaiting the detector, a crop or Promise.all, handleRefine
\* awaiting its model call.
Running ==
  { o \in Ops : ops[o].pc \in {"detect", "cropSide", "cropTop", "join", "call"} }

\* C21: the guards of the two forms keep operations mutually exclusive: from
\* the start of a generation or a refinement until it reaches SUCCESS or ERROR
\* no other one can be started, so at most one handler is in flight.
C21_MutuallyExclusive == Cardinality(Running) <= 1

\* The id of the project refinement o read its SVG from.  A view's id and its
\* project's id come from the same handleGenerate invocation as long as no
\* view has been written into another project.
SourceProjectId(o) == randomUUID(Get(ops[o].currentSvg).id.op, "project")

\* C22: a refinement's result is written only into the project it was computed
\* from: in the step in which handleRefine stores the refined view, the stored
\* project is the one whose SVG was sent and the view it overwrites is the one
\* that was sent; no view is inserted into a newer project.
C22_RefineSameProject ==
  [][\A o \in Ops :
       RefineSucceeds(o) =>
         /\ IsSome(project)
         /\ Get(project).id = SourceProjectId(o)
         /\ ViewOf(Get(project), ops[o].activeView) = ops[o].currentSvg
         /\ Get(project').id = SourceProjectId(o)]_vars

\* C23: whenever no operation is in progress (status is IDLE, SUCCESS or
\* ERROR) pipelineStatus is the empty string: every generation and refinement
\* leaves it cleared, and no pipeline callback fires after its generation ended.
C23_IdleStatusCleared ==
  status \in {StatusIDLE, StatusSUCCESS, StatusERROR} => pipelineStatus = ""

\* C24: whenever the project is non-null it has at least one of sideView and
\* topView populated and the active view names a populated view, so the SVG
\* handleRefine reads for the active view is never undefined.
C24_ActiveViewPopulated ==
  /\ IsSome(project) =>
       /\ \E v \in Views : IsSome(ViewOf(Get(project), v))
       /\ IsSome(ViewOf(Get(project), activeView))
       /\ IsSome(currentSvg(project, activeView))
  /\ \A o \in Ops :
       ops[o].kind = "refine" /\ ops[o].pc = "call" => IsSome(ops[o].currentSvg)

\* A project with a top view only is shown on its top tab and is being refined.
C24_Witness ==
  /\ IsSome(project)
  /\ ~IsSome(Get(project).sideView)
  /\ activeView = "top"
  /\ \E o \in Ops : ops[o].kind = "refine" /\ ops[o].pc = "call"

\* handleGenerate has been called as invocation o and no handler since.
Called(o) == started = o /\ ops[o].kind = "generate"

Ended == status \in {StatusSUCCESS, StatusERROR}

\* C25: if every model call and image load eventually returns or throws, every
\* call of handleGenerate eventually leaves the in-progress statuses: status
\* becomes SUCCESS or ERROR and does not stay SEGMENTING or LOADING forever.
C25_GenerateTerminates == \A o \in Ops : Called(o) ~> Ended

\* The calls that found an image to process do end, in SUCCESS or ERROR.
C25_WithImageTerminates ==
  \A o \in Ops :
    (Called(o) /\ ops[o].result # "noop")
      ~> (ops[o].pc \in {"done", "ended"} /\ ops[o].result \in {"success", "error"})

\* C26: extractSvg is idempotent: for every text t, extractSvg(extractSvg(t))
\* equals extractSvg(t), both when t contains a match of <svg ... </svg> and
\* when the fence-stripping fallback is taken.
C26_Idempotent ==
  IsSome(output) => extractSvg(Get(output)) = Get(output)

\* It is, when the text contains a match.
C26_IdempotentOnMatch ==
  (IsSome(output) /\ IsSome(SvgMatch(input)))
    => extractSvg(Get(output)) = Get(output)

\* It is, when removing the fences does not put a match together.
C26_IdempotentUnlessJoined ==
  (IsSome(output) /\ ~IsSome(SvgMatch(input))
     /\ ~IsSome(SvgMatch(StripFences(input))))
    => extractSvg(Get(output)) = Get(output)

====
